---- MODULE Spec2Model ----
(***************************************************************************)
(* Garbled-circuit generation of garbling/core/src/lib.rs: the Free-XOR    *)
(* garbler garble_ckt, the label generator gen_labels and the Bristol      *)
(* loader parse_bristol, each as a state machine.                          *)
(*                                                                         *)
(* Labels are 128-bit in the source; here a label is a LabelBits-bit       *)
(* number and xor_labels is the same bitwise XOR.  SHA-256 and the         *)
(* ChaCha12 key stream cannot be evaluated by TLC at full width: pad_sha   *)
(* is a fixed public mixing function of the concatenation ka || kb cut to  *)
(* its leading half, and the key stream of the all-zero SEED is the        *)
(* leading byte of each of its first 16-byte draws.                        *)
(***************************************************************************)
EXTENDS Integers, Sequences, FiniteSets, TLC

\* ------------------------------------------------------------- bounds
LabelBits == 2
MaxGates == 2
MaxWire == 1
MaxIn == 1
MaxLabels == 2
MaxCount == 4
MaxLines == 2

\* a gate line holds at most <AND/XOR> <u> <v> <o>
MaxLineTokens == 4

\* ------------------------------------------------------------- labels
LabelSpace == 2 ^ LabelBits
Label == 0 .. (LabelSpace - 1)

RECURSIVE XorBits(_, _, _)
XorBits(a, b, n) ==
    IF n = 0 THEN 0
    ELSE (((a % 2) + (b % 2)) % 2) + 2 * XorBits(a \div 2, b \div 2, n - 1)

\* fn xor_labels(a, b): r[i] = a[i] ^ b[i] for every byte
xor_labels(a, b) == XorBits(a, b, LabelBits)

\* fn pad_sha(ka, kb): the digest of ka || kb, cut to its first half
pad_sha(ka, kb) ==
    LET msg == ka * LabelSpace + kb
        digest == ((msg * msg * 5) + (msg * 11) + 7) % (LabelSpace * LabelSpace)
    IN  digest \div LabelSpace

\* Option<WireLabels>
None == [none |-> TRUE]
Some(w) == [k0 |-> w.k0, k1 |-> w.k1]
WireLabels(k0, k1) == [k0 |-> k0, k1 |-> k1]

\* ------------------------------------------------------------- circuits
WireId == 0 .. MaxWire
GateDef ==
    [op : {"And", "Xor"}, in0 : WireId, in1 : WireId, out : WireId]
    \cup [op : {"Not"}, input : WireId, out : WireId]

SeqsUpTo(S, n) == UNION {[1 .. k -> S] : k \in 0 .. n}

\* ChaCha12Rng::from_seed(SEED): the leading byte of each 16-byte draw
KeyStream == <<155, 4, 5, 58, 11, 198, 66, 233, 178, 104, 245, 16>>

VARIABLES
    ckt_inputs,     \* garble_ckt: CircuitInput
    label_inputs,   \* garble_ckt: LabelInputs
    pc,             \* garble_ckt: "idle" | "start" | "loop" | "done" | "panic"
    wires,          \* Vec<Option<WireLabels>>, slot i at wires[i + 1]
    inner_iter,     \* number of inner labels the iterator has yielded
    idx,            \* index of the gate the loop is at
    and_tables,     \* Vec<AndGateTable>
    not_tables,     \* Vec<NotGateTable>
    hist,           \* per processed gate: the locals lu, lv and the labels stored
    gen,            \* gen_labels: its arguments, position, RNG and vectors
    prs             \* parse_bristol: the file, its position and what it built

gvars == <<ckt_inputs, label_inputs, pc, wires, inner_iter, idx,
           and_tables, not_tables, hist>>
vars == <<ckt_inputs, label_inputs, pc, wires, inner_iter, idx,
          and_tables, not_tables, hist, gen, prs>>

\* ------------------------------------------------------------- garble_ckt
gates == ckt_inputs.gates
delta == label_inputs.delta

\* wires[i]: an index past the end and an unwrap of None both abort
InBounds(i) == i < Len(wires)
Readable(i) == InBounds(i) /\ wires[i + 1] # None

\* wires[out] = Some(w)
SetWire(ws, out, w) == [ws EXCEPT ![out + 1] = Some(w)]

\* for k0 in input_labels: push Some(k0, k0 ^ delta); for _ in (in1+in2)..wcnt: push None
InitialWires(inputs, d, first, wcnt) ==
    [i \in 1 .. Len(inputs) |-> Some(WireLabels(inputs[i], xor_labels(inputs[i], d)))]
    \o [i \in 1 .. (IF wcnt > first THEN wcnt - first ELSE 0) |-> None]

\* mutant: k1 taken from the operands' one-labels, where delta cancels
XorGateLabelsFromK1(lu, lv, d) ==
    LET k0 == xor_labels(lu.k0, lv.k0)
    IN  WireLabels(k0, xor_labels(lu.k1, lv.k1))

\* mutant: the second operand's one-label in the place of its zero-label
XorGateLabelsMixed(lu, lv, d) ==
    LET k0 == xor_labels(lu.k0, lv.k1)
    IN  WireLabels(k0, xor_labels(k0, d))

\* Xor arm: k0 = lu.k0 ^ lv.k0; k1 = k0 ^ delta
XorGateLabels(lu, lv, d) ==
    LET k0 == xor_labels(lu.k0, lv.k0)
    IN  WireLabels(k0, xor_labels(k0, d))

\* mutant: the labels are popped from the end of inner_labels
InnerGateLabelsPop(inner, pos, d) ==
    LET k0_out == inner[Len(inner) - pos]
    IN  WireLabels(k0_out, xor_labels(k0_out, d))

\* And / Not arm: k0_out = inner_iter.next().unwrap(); k1_out = k0_out ^ delta
InnerGateLabels(inner, pos, d) ==
    LET k0_out == inner[pos + 1]
    IN  WireLabels(k0_out, xor_labels(k0_out, d))

combos == <<<<0, 0>>, <<0, 1>>, <<1, 0>>, <<1, 1>>>>

\* mutant: out_bit = a | b
AndTableOr(lu, lv, wout) ==
    [i \in 1 .. 4 |->
        LET a == combos[i][1]
            b == combos[i][2]
            ka == IF a = 0 THEN lu.k0 ELSE lu.k1
            kb == IF b = 0 THEN lv.k0 ELSE lv.k1
            out_bit == IF a + b > 0 THEN 1 ELSE 0
            kout == IF out_bit = 0 THEN wout.k0 ELSE wout.k1
        IN  xor_labels(pad_sha(ka, kb), kout)]

\* mutant: the pad mixes in a per-gate value, the gate's own output label
AndTableNonce(lu, lv, wout) ==
    [i \in 1 .. 4 |->
        LET a == combos[i][1]
            b == combos[i][2]
            ka == IF a = 0 THEN lu.k0 ELSE lu.k1
            kb == IF b = 0 THEN lv.k0 ELSE lv.k1
            out_bit == a * b
            kout == IF out_bit = 0 THEN wout.k0 ELSE wout.k1
        IN  xor_labels(pad_sha(xor_labels(ka, wout.k0), kb), kout)]

\* And arm: table[i] = pad_sha(ka, kb) ^ kout for combos[i] = (a, b), out_bit = a & b
AndTable(lu, lv, wout) ==
    [i \in 1 .. 4 |->
        LET a == combos[i][1]
            b == combos[i][2]
            ka == IF a = 0 THEN lu.k0 ELSE lu.k1
            kb == IF b = 0 THEN lv.k0 ELSE lv.k1
            out_bit == a * b
            kout == IF out_bit = 0 THEN wout.k0 ELSE wout.k1
        IN  xor_labels(pad_sha(ka, kb), kout)]

\* mutant: out_bit = a
NotTableSame(lu, wout) ==
    [i \in 1 .. 2 |->
        LET a == i - 1
            ka == IF a = 0 THEN lu.k0 ELSE lu.k1
            out_bit == a
            kout == IF out_bit = 0 THEN wout.k0 ELSE wout.k1
        IN  xor_labels(pad_sha(ka, ka), kout)]

\* Not arm: table[i] = pad_sha(ka, ka) ^ kout for a = i, out_bit = 1 - a
NotTable(lu, wout) ==
    [i \in 1 .. 2 |->
        LET a == i - 1
            ka == IF a = 0 THEN lu.k0 ELSE lu.k1
            out_bit == 1 - a
            kout == IF out_bit = 0 THEN wout.k0 ELSE wout.k1
        IN  xor_labels(pad_sha(ka, ka), kout)]

\* mutant: the table list is overwritten with the new entry
PushTableOverwrite(tables, entry) == <<entry>>

\* and_tables.push(..) / not_tables.push(..)
PushTable(tables, entry) == Append(tables, entry)

Abort ==
    /\ pc' = "panic"
    /\ UNCHANGED <<ckt_inputs, label_inputs, wires, inner_iter, idx,
                   and_tables, not_tables, hist, gen, prs>>

\* the inner label was taken before wires[out] is found out of bounds
AbortAfterNext ==
    /\ pc' = "panic"
    /\ inner_iter' = inner_iter + 1
    /\ UNCHANGED <<ckt_inputs, label_inputs, wires, idx, and_tables, not_tables, hist,
                   gen, prs>>

LoadWires ==
    /\ pc = "start"
    /\ wires' = InitialWires(label_inputs.input_labels, delta,
                             ckt_inputs.input1_count + ckt_inputs.input2_count,
                             ckt_inputs.total_wire_count)
    /\ pc' = "loop"
    /\ UNCHANGED <<ckt_inputs, label_inputs, inner_iter, idx, and_tables, not_tables, hist,
                   gen, prs>>

GateXor ==
    /\ pc = "loop"
    /\ idx < Len(gates)
    /\ gates[idx + 1].op = "Xor"
    /\ LET g == gates[idx + 1]
       IN  IF ~Readable(g.in0) \/ ~Readable(g.in1) \/ ~InBounds(g.out)
           THEN Abort
           ELSE LET lu == wires[g.in0 + 1]
                    lv == wires[g.in1 + 1]
                    wout == XorGateLabels(lu, lv, delta)
                IN  /\ wires' = SetWire(wires, g.out, wout)
                    /\ hist' = Append(hist, [gate |-> idx, op |-> "Xor", lu |-> lu, lv |-> lv,
                                             wout |-> wout, pos |-> inner_iter])
                    /\ idx' = idx + 1
                    /\ UNCHANGED <<ckt_inputs, label_inputs, pc, inner_iter,
                                   and_tables, not_tables, gen, prs>>

GateAnd ==
    /\ pc = "loop"
    /\ idx < Len(gates)
    /\ gates[idx + 1].op = "And"
    /\ LET g == gates[idx + 1]
       IN  IF ~Readable(g.in0) \/ ~Readable(g.in1)
              \/ inner_iter >= Len(label_inputs.inner_labels)
           THEN Abort
           ELSE IF ~InBounds(g.out)
           THEN AbortAfterNext
           ELSE LET lu == wires[g.in0 + 1]
                    lv == wires[g.in1 + 1]
                    wout == InnerGateLabels(label_inputs.inner_labels, inner_iter, delta)
                IN  /\ inner_iter' = inner_iter + 1
                    /\ wires' = SetWire(wires, g.out, wout)
                    /\ and_tables' = PushTable(and_tables,
                           [gate |-> idx, in0 |-> g.in0, in1 |-> g.in1, out |-> g.out,
                            table |-> AndTable(lu, lv, wout)])
                    /\ hist' = Append(hist, [gate |-> idx, op |-> "And", lu |-> lu, lv |-> lv,
                                             wout |-> wout, pos |-> inner_iter])
                    /\ idx' = idx + 1
                    /\ UNCHANGED <<ckt_inputs, label_inputs, pc, not_tables, gen, prs>>

GateNot ==
    /\ pc = "loop"
    /\ idx < Len(gates)
    /\ gates[idx + 1].op = "Not"
    /\ LET g == gates[idx + 1]
       IN  IF ~Readable(g.input) \/ inner_iter >= Len(label_inputs.inner_labels)
           THEN Abort
           ELSE IF ~InBounds(g.out)
           THEN AbortAfterNext
           ELSE LET lu == wires[g.input + 1]
                    wout == InnerGateLabels(label_inputs.inner_labels, inner_iter, delta)
                IN  /\ inner_iter' = inner_iter + 1
                    /\ wires' = SetWire(wires, g.out, wout)
                    /\ not_tables' = PushTable(not_tables,
                           [gate |-> idx, input |-> g.input, out |-> g.out,
                            table |-> NotTable(lu, wout)])
                    /\ hist' = Append(hist, [gate |-> idx, op |-> "Not", lu |-> lu, lv |-> lu,
                                             wout |-> wout, pos |-> inner_iter])
                    /\ idx' = idx + 1
                    /\ UNCHANGED <<ckt_inputs, label_inputs, pc, and_tables, gen, prs>>

\* the gate loop is over: GarbledOutput { and_tables, not_tables }
Return ==
    /\ pc = "loop"
    /\ idx = Len(gates)
    /\ pc' = "done"
    /\ UNCHANGED <<ckt_inputs, label_inputs, wires, inner_iter, idx,
                   and_tables, not_tables, hist, gen, prs>>

\* ------------------------------------------------------------- gen_labels
\* rng.fill_bytes(&mut [0u8; 16]) at stream position i: the i-th 16-byte draw
Draw(i) == KeyStream[i + 1] % LabelSpace

\* fn gen_labels(input_wire_count, inner_wire_count), as a function of the key stream
gen_labels(n, m) ==
    [delta |-> Draw(0),
     input_labels |-> [i \in 1 .. n |-> Draw(i)],
     inner_labels |-> [j \in 1 .. m |-> Draw(n + j)]]

GenIdle == [pc |-> "idle"]

\* mutant: the inner loop runs before the input loop
NextPhaseInnerFirst(phase) ==
    CASE phase = "delta" -> "inner"
      [] phase = "inner" -> "input"
      [] phase = "input" -> "done"

\* the statement order of gen_labels: delta, the input loop, the inner loop, the result
NextPhase(phase) ==
    CASE phase = "delta" -> "input"
      [] phase = "input" -> "inner"
      [] phase = "inner" -> "done"

\* let mut delta = [0u8; 16]; rng.fill_bytes(&mut delta)
GenDelta ==
    /\ gen.pc = "delta"
    /\ gen' = [gen EXCEPT !.delta = Draw(gen.rng), !.rng = gen.rng + 1,
                          !.pc = NextPhase("delta")]
    /\ UNCHANGED gvars
    /\ UNCHANGED prs

\* for _ in 0..input_wire_count: fill k0, input_labels.push(k0)
GenInput ==
    /\ gen.pc = "input"
    /\ IF Len(gen.input_labels) < gen.n
       THEN gen' = [gen EXCEPT !.input_labels = Append(gen.input_labels, Draw(gen.rng)),
                               !.rng = gen.rng + 1]
       ELSE gen' = [gen EXCEPT !.pc = NextPhase("input")]
    /\ UNCHANGED gvars
    /\ UNCHANGED prs

\* for _ in 0..inner_wire_count: fill k0, inner_labels.push(k0)
GenInner ==
    /\ gen.pc = "inner"
    /\ IF Len(gen.inner_labels) < gen.m
       THEN gen' = [gen EXCEPT !.inner_labels = Append(gen.inner_labels, Draw(gen.rng)),
                               !.rng = gen.rng + 1]
       ELSE gen' = [gen EXCEPT !.pc = NextPhase("inner")]
    /\ UNCHANGED gvars
    /\ UNCHANGED prs

\* ------------------------------------------------------------- parse_bristol
PrsIdle == [pc |-> "idle"]

\* str::parse::<usize>() of one whitespace-separated token
IsUsize(tok) == \E k \in 0 .. MaxLines : ToString(k) = tok
ParseUsize(tok) == CHOOSE k \in 0 .. MaxLines : ToString(k) = tok

\* rdr.read_line(&mut line); line.split_whitespace(): past the end the line is empty
ReadLine(file, k) == IF k < Len(file) THEN file[k + 1] ELSE <<>>

\* k header fields, each parts.next().unwrap().parse()?: the first field that fails decides
HeaderOutcome(line, k) ==
    LET bad == {i \in 1 .. k : i > Len(line) \/ ~IsUsize(line[i])}
    IN  IF bad = {} THEN "ok"
        ELSE LET i == CHOOSE j \in bad : \A h \in bad : j <= h
             IN  IF i > Len(line) THEN "panic" ELSE "err"

\* let in_arity = if gstr == "AND" || gstr == "XOR" {2} else {1}
InArity(gstr) == IF gstr = "AND" \/ gstr = "XOR" THEN 2 ELSE 1

\* one gate line: "panic", [err ...] or [gate ...]
GateLineOutcome(line) ==
    IF Len(line) = 0 THEN [kind |-> "panic"]
    ELSE LET gstr == line[1]
             in_arity == InArity(gstr)
         IN  IF \E i \in 1 .. in_arity : (1 + i > Len(line) \/ ~IsUsize(line[1 + i]))
             THEN [kind |-> "panic"]
             ELSE IF 2 + in_arity > Len(line)
             THEN [kind |-> "panic"]
             ELSE IF ~IsUsize(line[2 + in_arity])
             THEN [kind |-> "err", what |-> "ParseIntError", token |-> line[2 + in_arity]]
             ELSE LET inputs == [i \in 1 .. in_arity |-> ParseUsize(line[1 + i])]
                      output == ParseUsize(line[2 + in_arity])
                  IN  CASE gstr = "AND" ->
                             [kind |-> "gate",
                              gate |-> [op |-> "And", in0 |-> inputs[1], in1 |-> inputs[2],
                                        out |-> output]]
                        [] gstr = "XOR" ->
                             [kind |-> "gate",
                              gate |-> [op |-> "Xor", in0 |-> inputs[1], in1 |-> inputs[2],
                                        out |-> output]]
                        [] gstr = "INV" ->
                             [kind |-> "gate",
                              gate |-> [op |-> "Not", input |-> inputs[1], out |-> output]]
                        [] OTHER ->
                             [kind |-> "err", what |-> "unexpected gate", token |-> gstr]

\* line 0: total_gate_count and_gate_count xor_gate_count not_gate_count
ParseLine0 ==
    /\ prs.pc = "line0"
    /\ LET line == ReadLine(prs.file, prs.line_no)
           res == HeaderOutcome(line, 4)
       IN  IF res = "ok"
           THEN prs' = [prs EXCEPT !.pc = "line1", !.line_no = prs.line_no + 1,
                                   !.total_gate_count = ParseUsize(line[1]),
                                   !.and_gate_count = ParseUsize(line[2]),
                                   !.xor_gate_count = ParseUsize(line[3]),
                                   !.not_gate_count = ParseUsize(line[4])]
           ELSE prs' = [prs EXCEPT !.pc = res, !.err = "ParseIntError"]
    /\ UNCHANGED gvars
    /\ UNCHANGED gen

\* line 1: total_wire_count input1_count input2_count output_wire_count
ParseLine1 ==
    /\ prs.pc = "line1"
    /\ LET line == ReadLine(prs.file, prs.line_no)
           res == HeaderOutcome(line, 4)
       IN  IF res = "ok"
           THEN prs' = [prs EXCEPT !.pc = "gates", !.line_no = prs.line_no + 1,
                                   !.total_wire_count = ParseUsize(line[1]),
                                   !.input1_count = ParseUsize(line[2]),
                                   !.input2_count = ParseUsize(line[3]),
                                   !.output_wire_count = ParseUsize(line[4])]
           ELSE prs' = [prs EXCEPT !.pc = res, !.err = "ParseIntError"]
    /\ UNCHANGED gvars
    /\ UNCHANGED gen

\* for _ in 0..total_gate_count: one gate line
ParseGate ==
    /\ prs.pc = "gates"
    /\ Len(prs.gates) < prs.total_gate_count
    /\ LET res == GateLineOutcome(ReadLine(prs.file, prs.line_no))
       IN  CASE res.kind = "gate" ->
                  prs' = [prs EXCEPT !.gates = Append(prs.gates, res.gate),
                                     !.line_no = prs.line_no + 1]
             [] res.kind = "err" ->
                  prs' = [prs EXCEPT !.pc = "err", !.err = res.what, !.token = res.token]
             [] OTHER ->
                  prs' = [prs EXCEPT !.pc = "panic"]
    /\ UNCHANGED gvars
    /\ UNCHANGED gen

\* Ok(ckt)
ParseReturn ==
    /\ prs.pc = "gates"
    /\ Len(prs.gates) = prs.total_gate_count
    /\ prs' = [prs EXCEPT !.pc = "ok"]
    /\ UNCHANGED gvars
    /\ UNCHANGED gen

\* ------------------------------------------------------------- inputs
CircuitInput ==
    [total_wire_count : 0 .. (MaxWire + 1),
     input1_count : 0 .. MaxIn,
     input2_count : 0 .. MaxIn,
     and_gate_count : 0 .. MaxGates,
     not_gate_count : 0 .. MaxGates,
     gates : SeqsUpTo(GateDef, MaxGates)]

LabelInputs ==
    {gen_labels(n, m) : n \in 0 .. MaxLabels, m \in 0 .. MaxLabels}

OpTok == {"AND", "XOR", "INV", "FOO"}
OperandTok == {ToString(0), "x"}
GateLine ==
    {<<>>} \cup {<<op>> \o args : op \in OpTok, args \in SeqsUpTo(OperandTok, MaxLineTokens - 1)}
Line0 ==
    {<<ToString(tg), ToString(1), ToString(0), ToString(0)>> : tg \in 0 .. MaxLines}
    \cup {<<"x", ToString(1), ToString(0), ToString(0)>>, <<ToString(1), ToString(1)>>}
Line1 ==
    {<<ToString(2), ToString(1), ToString(1), ToString(1)>>,
     <<ToString(2), ToString(1), "x", ToString(1)>>,
     <<ToString(2)>>}
BristolFile ==
    {<<l0, l1>> \o ls : l0 \in Line0, l1 \in Line1, ls \in SeqsUpTo(GateLine, MaxLines)}

GarbleStart ==
    /\ pc = "start"
    /\ wires = <<>>
    /\ inner_iter = 0
    /\ idx = 0
    /\ and_tables = <<>>
    /\ not_tables = <<>>
    /\ hist = <<>>

GarbleIdle ==
    /\ ckt_inputs = [gates |-> <<>>]
    /\ label_inputs = gen_labels(0, 0)
    /\ pc = "idle"
    /\ wires = <<>>
    /\ inner_iter = 0
    /\ idx = 0
    /\ and_tables = <<>>
    /\ not_tables = <<>>
    /\ hist = <<>>

\* garble_ckt(circuit_input, label_input) on what the guest reads from the host
Init ==
    /\ ckt_inputs \in CircuitInput
    /\ label_inputs \in LabelInputs
    /\ GarbleStart
    /\ gen = GenIdle
    /\ prs = PrsIdle

Next == LoadWires \/ GateXor \/ GateAnd \/ GateNot \/ Return

Spec == Init /\ [][Next]_vars

\* gen_labels(n, m) on a fresh ChaCha12Rng::from_seed(SEED)
InitGen ==
    /\ GarbleIdle
    /\ prs = PrsIdle
    /\ \E n \in 0 .. MaxCount, m \in 0 .. MaxCount :
          gen = [pc |-> "delta", n |-> n, m |-> m, rng |-> 0, delta |-> 0,
                 input_labels |-> <<>>, inner_labels |-> <<>>]

NextGen == GenDelta \/ GenInput \/ GenInner

SpecGen == InitGen /\ [][NextGen]_vars

\* parse_bristol(path) on a file of whitespace-separated tokens
InitParse ==
    /\ GarbleIdle
    /\ gen = GenIdle
    /\ \E f \in BristolFile :
          prs = [pc |-> "line0", file |-> f, line_no |-> 0,
                 total_gate_count |-> 0, and_gate_count |-> 0, xor_gate_count |-> 0,
                 not_gate_count |-> 0, total_wire_count |-> 0, input1_count |-> 0,
                 input2_count |-> 0, output_wire_count |-> 0,
                 gates |-> <<>>, err |-> "", token |-> ""]

NextParse == ParseLine0 \/ ParseLine1 \/ ParseGate \/ ParseReturn

SpecParse == InitParse /\ [][NextParse]_vars

\* ------------------------------------------------------------- properties
Bit == {0, 1}
Sel(w, bit) == IF bit = 0 THEN w.k0 ELSE w.k1
BitAnd(a, b) == IF a = 1 /\ b = 1 THEN 1 ELSE 0

\* the gates garble_ckt has processed are gates[1 .. idx]; hist[g + 1] is gate g
InnerGatesBefore(g) == Cardinality({k \in 1 .. g : gates[k].op \in {"And", "Not"}})
CountOp(op) == Cardinality({k \in 1 .. Len(gates) : gates[k].op = op})
Operands(g) == IF g.op = "Not" THEN {g.input} ELSE {g.in0, g.in1}

\* C1: every emitted AND table decrypts: for all (a, b), the pad of the operand labels
\* held when the gate was processed, XOR the entry at position 2a + b, is the output
\* label for a AND b that the gate stored in its output slot.
C1_AndCorrectness ==
    \A i \in 1 .. Len(and_tables) :
        LET t == and_tables[i]
            h == hist[t.gate + 1]
        IN  /\ \A a \in Bit, b \in Bit :
                  xor_labels(pad_sha(Sel(h.lu, a), Sel(h.lv, b)), t.table[2 * a + b + 1])
                      = Sel(h.wout, BitAnd(a, b))
            /\ (t.gate + 1 = Len(hist)) => wires[t.out + 1] = Some(h.wout)

\* an AND gate whose output wire is one of its operand wires has been garbled
C1_Witness ==
    /\ pc = "done"
    /\ \E i \in 1 .. Len(and_tables) :
          /\ and_tables[i].out = and_tables[i].in0
          /\ and_tables[i].in0 # and_tables[i].in1

\* C2: every emitted NOT table decrypts: for a in {0, 1}, the pad of the operand label
\* for a (twice), XOR entry a, is the output label for 1 - a that the gate stored.
C2_NotCorrectness ==
    \A i \in 1 .. Len(not_tables) :
        LET t == not_tables[i]
            h == hist[t.gate + 1]
        IN  /\ \A a \in Bit :
                  xor_labels(pad_sha(Sel(h.lu, a), Sel(h.lu, a)), t.table[a + 1])
                      = Sel(h.wout, 1 - a)
            /\ (t.gate + 1 = Len(hist)) => wires[t.out + 1] = Some(h.wout)

\* a NOT gate has been garbled whose operand was written by an earlier gate
C2_Witness ==
    /\ pc = "done"
    /\ \E i \in 1 .. Len(not_tables) :
          /\ not_tables[i].gate > 0
          /\ gates[not_tables[i].gate].out = not_tables[i].input

\* C3: in every state of a garbling pass every populated slot of the wire table holds
\* k1 = k0 XOR delta, for the one global delta.
C3_FreeXorInvariant ==
    \A i \in 1 .. Len(wires) :
        wires[i] # None => wires[i].k1 = xor_labels(wires[i].k0, delta)

\* a pass that processed an XOR gate and an AND or NOT gate, with a non-zero delta
C3_Witness ==
    /\ pc = "done"
    /\ delta # 0
    /\ \E i \in 1 .. Len(hist) : hist[i].op = "Xor"
    /\ \E i \in 1 .. Len(hist) : hist[i].op # "Xor"

\* C4: a processed XOR gate sets k0(out) = k0(in0) XOR k0(in1), from the operand labels
\* held before the step, appends no table and consumes no inner label.
C4_XorLinearity ==
    [][(pc = "loop" /\ idx < Len(gates) /\ gates[idx + 1].op = "Xor" /\ idx' = idx + 1)
         => LET g == gates[idx + 1]
            IN  /\ wires'[g.out + 1].k0
                      = xor_labels(wires[g.in0 + 1].k0, wires[g.in1 + 1].k0)
                /\ and_tables' = and_tables
                /\ not_tables' = not_tables
                /\ inner_iter' = inner_iter]_vars

\* an XOR gate with two different operands, one of them its own output wire, was processed
C4_Witness ==
    \E i \in 1 .. Len(hist) :
        /\ hist[i].op = "Xor"
        /\ gates[i].out = gates[i].in1
        /\ gates[i].in0 # gates[i].in1
        /\ hist[i].lu.k0 # hist[i].lv.k0

\* C5 as stated: a returned GarbledOutput has and_gate_count AND tables, not_gate_count
\* NOT tables, and the inner labels are exactly exhausted.
C5_Original ==
    pc = "done" =>
        /\ Len(and_tables) = ckt_inputs.and_gate_count
        /\ Len(not_tables) = ckt_inputs.not_gate_count
        /\ inner_iter = Len(label_inputs.inner_labels)

\* C5 as amended: a returned GarbledOutput has one AND table per And gate of the gate
\* sequence and one NOT table per Not gate, and exactly that many inner labels were
\* consumed, none missing; labels supplied beyond that stay unused.
C5_Conservation ==
    pc = "done" =>
        /\ Len(and_tables) = CountOp("And")
        /\ Len(not_tables) = CountOp("Not")
        /\ inner_iter = CountOp("And") + CountOp("Not")
        /\ inner_iter <= Len(label_inputs.inner_labels)

\* a pass returned although the header counts are off and an inner label is left over
C5_Witness ==
    /\ pc = "done"
    /\ Len(and_tables) = 1
    /\ ckt_inputs.and_gate_count # 1
    /\ Len(not_tables) # ckt_inputs.not_gate_count
    /\ inner_iter < Len(label_inputs.inner_labels)

\* C6 as stated: when both header lines parse and one of the first total_gate_count gate
\* lines starts with a token other than AND, XOR or INV, parse_bristol ends with the
\* structured error that names such a token, and in no other way.
BadOpcodeLines ==
    {k \in 1 .. ParseUsize(prs.file[1][1]) :
        /\ 2 + k <= Len(prs.file)
        /\ Len(prs.file[2 + k]) > 0
        /\ prs.file[2 + k][1] \notin {"AND", "XOR", "INV"}}
C6_OpcodeRejection ==
    (/\ prs.pc \in {"ok", "err", "panic"}
     /\ HeaderOutcome(prs.file[1], 4) = "ok"
     /\ HeaderOutcome(prs.file[2], 4) = "ok"
     /\ BadOpcodeLines # {})
        => /\ prs.pc = "err"
           /\ prs.err = "unexpected gate"
           /\ \E k \in BadOpcodeLines : prs.token = prs.file[2 + k][1]

\* C7 as stated: no gate is processed that reads an operand wire which is neither a
\* primary input wire (index < input1_count + input2_count) nor the output of an
\* earlier gate: such a gate aborts the pass.
C7_BrokenOrderFatal ==
    \A k \in 1 .. idx :
        \A w \in Operands(gates[k]) :
            \/ w < ckt_inputs.input1_count + ckt_inputs.input2_count
            \/ \E j \in 1 .. (k - 1) : gates[j].out = w

\* C8: gen_labels(n, m) takes exactly 1 + n + m consecutive draws: draw 0 is delta,
\* draws 1..n the input labels in order, draws n+1..n+m the inner labels in order.
C8_DrawOrder ==
    gen.pc = "done" =>
        /\ gen.rng = 1 + gen.n + gen.m
        /\ gen.delta = Draw(0)
        /\ Len(gen.input_labels) = gen.n
        /\ Len(gen.inner_labels) = gen.m
        /\ \A i \in 1 .. gen.n : gen.input_labels[i] = Draw(i)
        /\ \A j \in 1 .. gen.m : gen.inner_labels[j] = Draw(gen.n + j)

\* a call with at least two input and two inner labels has returned
C8_Witness ==
    /\ gen.pc = "done"
    /\ gen.n >= 2
    /\ gen.m >= 2

C10_InnerOrder ==
    /\ \A i \in 1 .. Len(hist) :
          LET h == hist[i]
              j == InnerGatesBefore(h.gate)
          IN  /\ h.pos = j
              /\ h.op # "Xor" => h.wout.k0 = label_inputs.inner_labels[j + 1]
    /\ pc \in {"loop", "done"} => inner_iter = InnerGatesBefore(idx)

\* two gates that drew different inner labels, the later one writing the lower wire index
C10_Witness ==
    /\ pc = "done"
    /\ \E i \in 1 .. Len(hist), k \in 1 .. Len(hist) :
          /\ i < k
          /\ hist[i].op # "Xor"
          /\ hist[k].op # "Xor"
          /\ gates[k].out < gates[i].out
          /\ hist[i].wout.k0 # hist[k].wout.k0

====
